---- MODULE Spec2Model ----
(***************************************************************************)
(* The waitlist service (src/main.go, latest revision, lines 264-663):     *)
(* an HTTP server whose submission handler validates an email and inserts  *)
(* it into a SQLite table, a honeypot table for bot submissions, a schema  *)
(* initializer run at every start-up and before every listing, and the     *)
(* `list` command.                                                         *)
(*                                                                         *)
(* Text is modelled as a sequence of one-character strings, so that        *)
(* strings.TrimSpace, strings.Index and mail.ParseAddress are computed     *)
(* rather than assumed.  A Content-Type value is a sequence of tokens      *)
(* (a media type, ";", " ", a parameter).                                  *)
(***************************************************************************)
EXTENDS Integers, Sequences, FiniteSets, Bags, TLC

\* ------------------------------------------------------------------ bounds
NumHandlers == 2        \* request goroutines that can be in flight at once
MaxHoneypot == 1        \* honeypot rows admitted in one run
MaxClock    == 1        \* CURRENT_TIMESTAMP readings are 0..MaxClock (seconds)

Clock == 0..MaxClock

\* ------------------------------------------------------- program constants
StatusOK                  == 200
StatusCreated             == 201
StatusBadRequest          == 400
StatusNotFound            == 404
StatusMethodNotAllowed    == 405
StatusConflict            == 409
StatusInternalServerError == 500

\* --------------------------------------------------------------- text
Space == " "

RECURSIVE TrimLeft(_)
TrimLeft(s) ==
    IF s # <<>> /\ Head(s) = Space THEN TrimLeft(Tail(s)) ELSE s

RECURSIVE TrimRight(_)
TrimRight(s) ==
    IF s # <<>> /\ s[Len(s)] = Space THEN TrimRight(SubSeq(s, 1, Len(s) - 1)) ELSE s

\* strings.TrimSpace
TrimSpace(s) == TrimRight(TrimLeft(s))

\* strings.Index(s, c) for a one-character c, 1-based; 0 stands for Go's -1
Index(s, c) ==
    IF \E i \in 1..Len(s) : s[i] = c
    THEN CHOOSE i \in 1..Len(s) : s[i] = c /\ \A j \in 1..(i - 1) : s[j] # c
    ELSE 0

\* net/mail: the characters of an atom (RFC 5322 atext), as far as the inputs use them
AtomChars == {"a", "b", "x", "t"}

IsDotAtom(s) ==
    /\ s # <<>>
    /\ \A i \in 1..Len(s) : s[i] \in AtomChars \cup {"."}
    /\ s[1] # "."
    /\ s[Len(s)] # "."
    /\ \A i \in 1..(Len(s) - 1) : ~(s[i] = "." /\ s[i + 1] = ".")

\* addr-spec = local-part "@" domain
IsAddrSpec(s) ==
    \E i \in 1..Len(s) :
        /\ s[i] = "@"
        /\ IsDotAtom(SubSeq(s, 1, i - 1))
        /\ IsDotAtom(SubSeq(s, i + 1, Len(s)))

\* display-name: words of atom characters separated by spaces (may be empty)
IsPhrase(s) == \A i \in 1..Len(s) : s[i] \in AtomChars \cup {Space}

\* name-addr = [display-name] "<" addr-spec ">"
IsNameAddr(s) ==
    /\ s # <<>>
    /\ s[Len(s)] = ">"
    /\ \E i \in 1..Len(s) :
        /\ s[i] = "<"
        /\ IsPhrase(SubSeq(s, 1, i - 1))
        /\ IsAddrSpec(SubSeq(s, i + 1, Len(s) - 1))

ParseAddressAny(s) == TRUE

\* mail.ParseAddress(email) returns no error
ParseAddressOK(s) == IsAddrSpec(TrimSpace(s)) \/ IsNameAddr(TrimSpace(s))

\* ------------------------------------------------------------ requests
\* Content-Type header values, as token sequences
CtJSON      == <<"application/json">>
CtJSONParam == <<"application/json", " ", ";", " ", "charset=utf-8">>
CtForm      == <<"application/x-www-form-urlencoded">>
ContentTypes == {CtJSON, CtJSONParam, CtForm}

Methods == {"GET", "POST"}
Paths   == {"/", "/api/v1/waitlist", "/favicon.ico"}

EmailInputs ==
    { <<" ">>,
      <<"a", "x">>,
      <<" ", "a", "@", "x", " ">>,
      <<"b", "@", "x">> }

TrapInputs == { <<" ">>, <<" ", "t">> }

\* An HTTP request: bodyOK tells whether the body decodes in the encoding the
\* Content-Type selects (json.Decoder.Decode / Request.ParseForm return no error).
Requests ==
    [method : Methods, path : Paths, ctype : ContentTypes, bodyOK : BOOLEAN,
     email : EmailInputs, nickname : TrapInputs]

\* ----------------------------------------------------------- responses
NoBody == [kind |-> "none", message |-> ""]
NoResp == [status |-> 0, ctype |-> "", allow |-> "", body |-> NoBody]

\* http.Error: a plain-text body
HttpError(message, status) ==
    [status |-> status, ctype |-> "text/plain; charset=utf-8", allow |-> "",
     body |-> [kind |-> "text", message |-> message]]

\* http.NotFound
HttpNotFound == HttpError("404 page not found", StatusNotFound)

writeMessage(status, message, htmlPreferred) ==
    IF htmlPreferred
    THEN [status |-> status, ctype |-> "text/html; charset=utf-8", allow |-> "",
          body |-> [kind |-> "html", message |-> message]]
    ELSE [status |-> status, ctype |-> "application/json", allow |-> "",
          body |-> [kind |-> "json", message |-> message]]

\* ------------------------------------------------------------- handlers
IsJSONExact(ctype) == ctype = CtJSON

\* contentType up to the first ";", trimmed; compared with "application/json"
IsJSON(ctype) ==
    LET idx == Index(ctype, ";")
        contentType == IF idx # 0 THEN TrimSpace(SubSeq(ctype, 1, idx - 1)) ELSE ctype
    IN  contentType = CtJSON

Respond(resp) ==
    [next |-> "respond", resp |-> resp, email |-> <<>>, trapValue |-> <<>>, isJSON |-> FALSE]

Store(next, email, trapValue, isJSON) ==
    [next |-> next, resp |-> NoResp, email |-> email, trapValue |-> trapValue,
     isJSON |-> isJSON]

\* r.Method != http.MethodPost
NotPostNever(method) == FALSE

NotPost(method) == method # "POST"

\* trapValue != ""
TrapSetNever(trapValue) == FALSE

TrapSet(trapValue) == trapValue # <<>>

\* waitlistHandler up to its storage call: either the response it writes at once,
\* or the insert it goes on to make
waitlistHandler(req) ==
    IF NotPost(req.method)
    THEN Respond([HttpError("method not allowed", StatusMethodNotAllowed)
                     EXCEPT !.allow = "POST"])
    ELSE
    LET isJSON    == IsJSON(req.ctype)
        email     == TrimSpace(req.email)
        trapValue == TrimSpace(req.nickname)
    IN  IF isJSON /\ ~req.bodyOK
        THEN Respond(writeMessage(StatusBadRequest, "invalid JSON body", FALSE))
        ELSE IF ~isJSON /\ ~req.bodyOK
        THEN Respond(writeMessage(StatusBadRequest, "invalid form data", TRUE))
        ELSE IF TrapSet(trapValue)
        THEN Store("insertHoneypot", email, trapValue, isJSON)
        ELSE IF email = <<>>
        THEN Respond(writeMessage(StatusBadRequest, "email is required", ~isJSON))
        ELSE IF ~ParseAddressOK(email)
        THEN Respond(writeMessage(StatusBadRequest, "invalid email address", ~isJSON))
        ELSE Store("insertWaitlist", email, <<>>, isJSON)

\* serveIndex (defined, but see Patterns)
serveIndex(req) ==
    IF req.path # "/"
    THEN Respond(HttpNotFound)
    ELSE IF req.method # "GET"
    THEN Respond([HttpError("method not allowed", StatusMethodNotAllowed)
                     EXCEPT !.allow = "GET"])
    ELSE Respond([status |-> StatusOK, ctype |-> "text/html; charset=utf-8",
                  allow |-> "", body |-> [kind |-> "file", message |-> "index.html"]])

\* the patterns runAPIServer registers on its ServeMux, with their handlers
Patterns == {"/api/v1/waitlist"}

\* http.ServeMux: an exact pattern wins, then the subtree pattern "/", then NotFound
ServeMux(req) ==
    IF req.path \in Patterns /\ req.path = "/api/v1/waitlist"
    THEN waitlistHandler(req)
    ELSE IF "/" \in Patterns
    THEN serveIndex(req)
    ELSE Respond(HttpNotFound)

\* -------------------------------------------------------------- storage
TableNames == {"waitlist", "waitlist_honeypot"}

EmptyDB == [file |-> FALSE, tables |-> {}, waitlist |-> <<>>, honeypot |-> <<>>]

Max(S) == CHOOSE m \in S : \A n \in S : n <= m

\* INTEGER PRIMARY KEY AUTOINCREMENT
NextId(rows) == IF rows = <<>> THEN 1 ELSE Max({rows[i].id : i \in 1..Len(rows)}) + 1

Emails(rows) == {rows[i].email : i \in 1..Len(rows)}

UniqueErr  == "UNIQUE constraint failed: waitlist.email"
NoTableErr == "no such table"
IOErr      == "disk I/O error"

\* DROP TABLE IF EXISTS name; CREATE TABLE name (...)
CreateTableAnew(d, name) ==
    [d EXCEPT !.tables = @ \cup {name},
              !.waitlist = IF name = "waitlist" THEN <<>> ELSE @,
              !.honeypot = IF name = "waitlist_honeypot" THEN <<>> ELSE @]

\* CREATE TABLE IF NOT EXISTS name (...)
CreateTableIfNotExists(d, name) ==
    IF name \in d.tables THEN d ELSE [d EXCEPT !.tables = @ \cup {name}]

\* the same insert into a table whose email column is not UNIQUE
insertWaitlistNoUnique(d, email, t) ==
    IF "waitlist" \notin d.tables
    THEN [err |-> NoTableErr, db |-> d]
    ELSE [err |-> "",
          db |-> [d EXCEPT !.waitlist =
                     Append(@, [id |-> NextId(@), email |-> email, created_at |-> t])]]

\* INSERT OR REPLACE INTO waitlist(email) VALUES (?)
insertWaitlistReplace(d, email, t) ==
    IF "waitlist" \notin d.tables
    THEN [err |-> NoTableErr, db |-> d]
    ELSE LET kept == SelectSeq(d.waitlist, LAMBDA r : r.email # email)
         IN  [err |-> "",
              db |-> [d EXCEPT !.waitlist =
                         Append(kept, [id |-> NextId(d.waitlist), email |-> email,
                                       created_at |-> t])]]

\* INSERT INTO waitlist(email) VALUES (?), with the column's UNIQUE constraint
insertWaitlist(d, email, t) ==
    IF "waitlist" \notin d.tables
    THEN [err |-> NoTableErr, db |-> d]
    ELSE IF email \in Emails(d.waitlist)
    THEN [err |-> UniqueErr, db |-> d]
    ELSE [err |-> "",
          db |-> [d EXCEPT !.waitlist =
                     Append(@, [id |-> NextId(@), email |-> email, created_at |-> t])]]

\* INSERT INTO waitlist_honeypot(email, trap_value) VALUES (?, ?)
insertHoneypot(d, email, trapValue, t) ==
    IF "waitlist_honeypot" \notin d.tables
    THEN [err |-> NoTableErr, db |-> d]
    ELSE [err |-> "",
          db |-> [d EXCEPT !.honeypot =
                     Append(@, [id |-> NextId(@), email |-> email,
                                trap_value |-> trapValue, created_at |-> t])]]

isUniqueConstraintNever(err) == FALSE

isUniqueConstraintAlways(err) == TRUE

\* strings.Contains(err.Error(), "UNIQUE constraint failed")
isUniqueConstraint(err) == err \in {UniqueErr}

\* waitlistHandler after insertWaitlist returned err
AfterInsertWaitlist(err, isJSON) ==
    IF err # ""
    THEN IF isUniqueConstraint(err)
         THEN writeMessage(StatusConflict, "email already registered", ~isJSON)
         ELSE writeMessage(StatusInternalServerError, "internal server error", ~isJSON)
    ELSE writeMessage(StatusCreated, "email accepted for waitlist", ~isJSON)

\* waitlistHandler after insertHoneypot returned err
AfterInsertHoneypot(err, isJSON) ==
    IF err # ""
    THEN writeMessage(StatusInternalServerError, "internal server error", ~isJSON)
    ELSE writeMessage(StatusCreated, "email accepted for waitlist", ~isJSON)

\* -------------------------------------------------------------- listing
\* ORDER BY created_at ASC, id DESC
RowBeforeIdDesc(r, q) ==
    \/ r.created_at < q.created_at
    \/ (r.created_at = q.created_at /\ r.id > q.id)

\* ORDER BY created_at ASC, id ASC
RowBefore(r, q) ==
    \/ r.created_at < q.created_at
    \/ (r.created_at = q.created_at /\ r.id < q.id)

RECURSIVE OrderBy(_)
OrderBy(rows) ==
    IF rows = {} THEN <<>>
    ELSE LET first == CHOOSE r \in rows : \A q \in rows \ {r} : RowBefore(r, q)
         IN  <<first>> \o OrderBy(rows \ {first})

Range(sq) == {sq[i] : i \in 1..Len(sq)}

\* the header line: fmt.Fprintln(tw, "ID\tEmail\t...") as its tab-separated cells
Header(honeypotOnly) ==
    IF honeypotOnly
    THEN <<"ID", "Email", "Trap Value", "Created At">>
    ELSE <<"ID", "Email", "Created At">>

\* the line written for either table before the honeypot table had its own
PlaceholderOfWaitlist(honeypotOnly) == <<"(no entries)", "", "">>

\* the line written when count == 0, as its tab-separated cells
Placeholder(honeypotOnly) ==
    IF honeypotOnly
    THEN <<"(no honeypot entries)", "", "", "">>
    ELSE <<"(no entries)", "", "">>

\* what listWaitlistEntries writes: one tuple of tab-separated cells per line
Render(d, honeypotOnly) ==
    LET rows   == OrderBy(Range(IF honeypotOnly THEN d.honeypot ELSE d.waitlist))
        line(r) == IF honeypotOnly
                   THEN <<r.id, r.email, r.trap_value, r.created_at>>
                   ELSE <<r.id, r.email, r.created_at>>
        lines  == [i \in 1..Len(rows) |-> line(rows[i])]
    IN  <<Header(honeypotOnly)>> \o lines
            \o (IF Len(rows) = 0 THEN <<Placeholder(honeypotOnly)>> ELSE <<>>)

\* ---------------------------------------------------------------- state
VARIABLES
    db,         \* the SQLite database file: its tables and their rows
    srv,        \* the serve/demo process: "boot", "exec1", "exec2", "serving", "failed"
    lister,     \* the list process: "idle", "exec1", "exec2", "query", "done"
    out,        \* the lines the list process has written
    handlers,   \* the bag of request goroutines blocked on their storage call
    lastReq,    \* the request most recently taken (kept by SeqSpec only)
    last        \* the response most recently written by the server

vars == <<db, srv, lister, out, handlers, lastReq, last>>

NoReq == [method |-> "", path |-> "", ctype |-> <<>>, bodyOK |-> FALSE,
          email |-> <<>>, nickname |-> <<>>]

\* serve opens DATABASE_PATH (created on first use); demo creates the file first
Init ==
    /\ db \in {EmptyDB, [EmptyDB EXCEPT !.file = TRUE]}
    /\ srv = "boot"
    /\ lister = "idle"
    /\ out = <<>>
    /\ handlers = EmptyBag
    /\ lastReq = NoReq
    /\ last = NoResp

\* ---------------------------------------------------- schema initializer
\* initializeDatabase: db.Ping, then the two statements of schema, one by one
Ping(d) == [d EXCEPT !.file = TRUE]

ExecSchema1(d) == CreateTableIfNotExists(d, "waitlist")

ExecSchema2(d) == CreateTableIfNotExists(d, "waitlist_honeypot")

\* setupDatabase in runAPIServer
SrvPing ==
    /\ srv = "boot"
    /\ db' = Ping(db)
    /\ srv' = "exec1"
    /\ UNCHANGED <<lister, out, handlers, lastReq, last>>

\* db.Ping fails: runAPIServer returns the error and the process exits
SrvPingFail ==
    /\ srv = "boot"
    /\ srv' = "failed"
    /\ UNCHANGED <<db, lister, out, handlers, lastReq, last>>

SrvExec1 ==
    /\ srv = "exec1"
    /\ db' = ExecSchema1(db)
    /\ srv' = "exec2"
    /\ UNCHANGED <<lister, out, handlers, lastReq, last>>

\* after the schema, http.ListenAndServe
SrvExec2 ==
    /\ srv = "exec2"
    /\ db' = ExecSchema2(db)
    /\ srv' = "serving"
    /\ UNCHANGED <<lister, out, handlers, lastReq, last>>

\* ------------------------------------------------------------------ list
\* listWaitlistEntries: the database file must exist; sql.Open and db.Ping
ListOpen ==
    /\ lister = "idle"
    /\ db.file
    /\ db' = Ping(db)
    /\ lister' = "exec1"
    /\ UNCHANGED <<srv, out, handlers, lastReq, last>>

ListExec1 ==
    /\ lister = "exec1"
    /\ db' = ExecSchema1(db)
    /\ lister' = "exec2"
    /\ UNCHANGED <<srv, out, handlers, lastReq, last>>

ListExec2 ==
    /\ lister = "exec2"
    /\ db' = ExecSchema2(db)
    /\ lister' = "query"
    /\ UNCHANGED <<srv, out, handlers, lastReq, last>>

\* the query, the table and the flush
ListQuery(honeypotOnly) ==
    /\ lister = "query"
    /\ out' = Render(db, honeypotOnly)
    /\ lister' = "done"
    /\ UNCHANGED <<db, srv, handlers, lastReq, last>>

\* the process exits
ListExit ==
    /\ lister = "done"
    /\ lister' = "idle"
    /\ out' = <<>>
    /\ UNCHANGED <<db, srv, handlers, lastReq, last>>

\* ---------------------------------------------------------------- serve
PendingHoneypot ==
    BagCardinality([p \in {q \in BagToSet(handlers) : q.pc = "insertHoneypot"}
                       |-> handlers[p]])

Blocked(r) ==
    [pc |-> r.next, email |-> r.email, trapValue |-> r.trapValue, isJSON |-> r.isJSON]

\* what the mux and the handler make of a request, up to the storage call: r
Handle(r) ==
    /\ srv = "serving"
    /\ BagCardinality(handlers) < NumHandlers
    /\ IF r.next = "respond"
       THEN /\ last' = r.resp
            /\ UNCHANGED handlers
       ELSE /\ r.next = "insertHoneypot" =>
                   Len(db.honeypot) + PendingHoneypot < MaxHoneypot
            /\ handlers' = handlers (+) SetToBag({Blocked(r)})
            /\ UNCHANGED last
    /\ UNCHANGED <<db, srv, lister, out>>

\* the outcomes of the requests
Outcomes == {ServeMux(req) : req \in Requests}

\* the server takes a request, any number of them at once
ServeHTTP(r) ==
    /\ Handle(r)
    /\ UNCHANGED lastReq

\* the server takes request req while no other is in flight
ServeOne(req) ==
    /\ handlers = EmptyBag
    /\ Handle(ServeMux(req))
    /\ lastReq' = req

\* insertWaitlist runs at CURRENT_TIMESTAMP t; fault: the call fails before the
\* statement runs (cancelled request context, I/O error)
ExecInsertWaitlist(p, t, fault) ==
    /\ BagIn(p, handlers)
    /\ p.pc = "insertWaitlist"
    /\ LET r == IF fault THEN [err |-> IOErr, db |-> db]
                ELSE insertWaitlist(db, p.email, t)
       IN  /\ db' = r.db
           /\ last' = AfterInsertWaitlist(r.err, p.isJSON)
    /\ handlers' = handlers (-) SetToBag({p})
    /\ UNCHANGED <<srv, lister, out, lastReq>>

ExecInsertHoneypot(p, t, fault) ==
    /\ BagIn(p, handlers)
    /\ p.pc = "insertHoneypot"
    /\ LET r == IF fault THEN [err |-> IOErr, db |-> db]
                ELSE insertHoneypot(db, p.email, p.trapValue, t)
       IN  /\ db' = r.db
           /\ last' = AfterInsertHoneypot(r.err, p.isJSON)
    /\ handlers' = handlers (-) SetToBag({p})
    /\ UNCHANGED <<srv, lister, out, lastReq>>

Next ==
    \/ SrvPing
    \/ SrvPingFail
    \/ SrvExec1
    \/ SrvExec2
    \/ ListOpen
    \/ ListExec1
    \/ ListExec2
    \/ \E honeypotOnly \in BOOLEAN : ListQuery(honeypotOnly)
    \/ ListExit
    \/ \E r \in Outcomes : ServeHTTP(r)
    \/ \E p \in BagToSet(handlers), t \in Clock, fault \in BOOLEAN :
          ExecInsertWaitlist(p, t, fault)
    \/ \E p \in BagToSet(handlers), t \in Clock, fault \in BOOLEAN :
          ExecInsertHoneypot(p, t, fault)

\* the whole system: server, any number of requests in flight, list runs
Spec == Init /\ [][Next]_vars

SeqNext ==
    \/ SrvPing
    \/ SrvPingFail
    \/ SrvExec1
    \/ SrvExec2
    \/ \E req \in Requests : ServeOne(req)
    \/ \E p \in BagToSet(handlers), t \in Clock, fault \in BOOLEAN :
          ExecInsertWaitlist(p, t, fault)
    \/ \E p \in BagToSet(handlers), t \in Clock, fault \in BOOLEAN :
          ExecInsertHoneypot(p, t, fault)

\* the server taking one request at a time, each request kept beside its response
SeqSpec == Init /\ [][SeqNext]_vars

\* ================================================================ claims
Endpoint == "/api/v1/waitlist"

A_x == <<"a", "@", "x">>
B_x == <<"b", "@", "x">>

\* the inputs that are well-formed addresses, with the value each is stored as
ValidInputs == { <<" ", "a", "@", "x", " ">>, B_x }

\* the inputs that are empty or malformed once the surrounding blanks are gone
InvalidInputs == { <<" ">>, <<"a", "x">> }

Stored(input) ==
    IF input = <<" ", "a", "@", "x", " ">> THEN A_x
    ELSE IF input = <<" ">> THEN <<>>
    ELSE input

\* the trap inputs that are blank, and the one that is not, with its stored value
BlankTraps == { <<" ">> }
Trap_t == <<"t">>

DeclaresJSON(req) == req.ctype \in {CtJSON, CtJSONParam}

Submission(req) == req.method = "POST" /\ req.path = Endpoint

RowsWith(rows, email) == {i \in 1..Len(rows) : rows[i].email = email}

IsPrefix(a, b) == Len(a) <= Len(b) /\ SubSeq(b, 1, Len(a)) = a

\* a step of SeqSpec in which the server takes a request (kept in lastReq')
TakesRequest == srv = "serving" /\ handlers = EmptyBag

\* in SeqSpec: the request in lastReq has been answered, by last
Answered == lastReq # NoReq /\ handlers = EmptyBag

UniqueEmails(rows) ==
    \A i, j \in 1..Len(rows) : rows[i].email = rows[j].email => i = j

\* C1: in every reachable state no two waitlist rows have the same email, and an
\* insert of an email that a row already holds is rejected (no 201) and leaves
\* every row of the table as it was.
C1_UniqueEmail ==
    [][ /\ UniqueEmails(db.waitlist)
        /\ UniqueEmails(db'.waitlist)
        /\ \A p \in BagToSet(handlers), t \in Clock, fault \in BOOLEAN :
              (ExecInsertWaitlist(p, t, fault) /\ p.email \in Emails(db.waitlist))
                  => /\ db'.waitlist = db.waitlist
                     /\ last'.status # StatusCreated ]_vars

C1_Witness ==
    /\ Len(db.waitlist) = 2
    /\ last.status = StatusConflict
    /\ \E p \in BagToSet(handlers) : p.pc = "insertWaitlist"

\* C2: a POST to the endpoint with a decodable body, a blank trap and a well-formed
\* email goes on to exactly one insert of the trimmed email; when storage runs that
\* insert and no row holds the email, the answer is 201 and exactly one row is
\* added; when a row holds it already, the answer is 409 "email already
\* registered" and the table still holds exactly that one row.
GenuineSubmission(req) ==
    /\ Submission(req)
    /\ req.bodyOK
    /\ req.nickname \in BlankTraps
    /\ req.email \in ValidInputs

C2_CreatedThenConflict ==
    [][ /\ (TakesRequest /\ GenuineSubmission(lastReq'))
            => /\ BagCardinality(handlers') = 1
               /\ \E p \in BagToSet(handlers') :
                     p.pc = "insertWaitlist" /\ p.email = Stored(lastReq'.email)
               /\ db' = db
        /\ \A p \in BagToSet(handlers), t \in Clock :
              (ExecInsertWaitlist(p, t, FALSE) /\ GenuineSubmission(lastReq))
                  => LET email == Stored(lastReq.email)
                     IN  IF email \notin Emails(db.waitlist)
                         THEN /\ last'.status = StatusCreated
                              /\ Len(db'.waitlist) = Len(db.waitlist) + 1
                              /\ IsPrefix(db.waitlist, db'.waitlist)
                              /\ Cardinality(RowsWith(db'.waitlist, email)) = 1
                         ELSE /\ last'.status = StatusConflict
                              /\ last'.body.message = "email already registered"
                              /\ db' = db
                              /\ Cardinality(RowsWith(db'.waitlist, email)) = 1 ]_vars

C2_Witness ==
    /\ Answered
    /\ GenuineSubmission(lastReq)
    /\ last.status = StatusConflict
    /\ Cardinality(RowsWith(db.waitlist, Stored(lastReq.email))) = 1
    /\ Len(db.waitlist) = 2

\* C3: when two handlers are blocked at once on the insert of the same email and
\* no row holds it, the one whose insert storage runs first answers 201 and adds
\* the only row for that email, the other then runs against a table that holds
\* the email; and an insert run against a table that holds the email answers 409
\* and leaves the table as it was.
Racing(p) ==
    /\ p.pc = "insertWaitlist"
    /\ \E q \in BagToSet(handlers) :
          /\ q.pc = "insertWaitlist"
          /\ q.email = p.email
          /\ (q # p \/ CopiesIn(p, handlers) >= 2)

C3_RaceOneWins ==
    [][ \A p \in BagToSet(handlers), t \in Clock :
          ExecInsertWaitlist(p, t, FALSE)
              => /\ (Racing(p) /\ p.email \notin Emails(db.waitlist))
                     => /\ last'.status = StatusCreated
                        /\ Cardinality(RowsWith(db'.waitlist, p.email)) = 1
                        /\ \E q \in BagToSet(handlers') :
                              q.pc = "insertWaitlist" /\ q.email = p.email
                 /\ p.email \in Emails(db.waitlist)
                     => /\ last'.status = StatusConflict
                        /\ db' = db
                        /\ Cardinality(RowsWith(db'.waitlist, p.email)) = 1 ]_vars

C3_Witness ==
    \E p \in BagToSet(handlers) : Racing(p) /\ p.email \notin Emails(db.waitlist)

\* C4: a POST to the endpoint with a blank trap whose email is empty or malformed
\* once trimmed is answered 400 at once: no insert is made and the database is
\* as it was.
C4_InvalidEmail400 ==
    [][ ( /\ TakesRequest
          /\ Submission(lastReq')
          /\ lastReq'.nickname \in BlankTraps
          /\ lastReq'.email \in InvalidInputs )
            => /\ last'.status = StatusBadRequest
               /\ handlers' = EmptyBag
               /\ db' = db ]_vars

C4_Witness ==
    /\ Answered
    /\ Submission(lastReq)
    /\ lastReq.bodyOK
    /\ lastReq.email = <<"a", "x">>
    /\ last.status = StatusBadRequest
    /\ last.body.message = "invalid email address"
    /\ Len(db.waitlist) = 2

\* C5: a POST to the endpoint with a decodable body and a trap that is not blank
\* goes on to one honeypot insert whatever its email (empty, malformed, or held by
\* a waitlist row), recorded as trimmed; when storage runs that insert the row is
\* appended to the honeypot table, the waitlist table is as it was, and the
\* answer is 201 with the message of a genuine success.
TrapSubmission(req) ==
    /\ Submission(req)
    /\ req.bodyOK
    /\ req.nickname \notin BlankTraps

C5_HoneypotUnconditional ==
    [][ /\ (TakesRequest /\ TrapSubmission(lastReq'))
            => /\ handlers' = SetToBag({[pc |-> "insertHoneypot",
                                         email |-> Stored(lastReq'.email),
                                         trapValue |-> Trap_t,
                                         isJSON |-> DeclaresJSON(lastReq')]})
               /\ db' = db
               /\ last' = last
        /\ \A p \in BagToSet(handlers), t \in Clock :
              (ExecInsertHoneypot(p, t, FALSE) /\ TrapSubmission(lastReq))
                  => /\ Len(db'.honeypot) = Len(db.honeypot) + 1
                     /\ IsPrefix(db.honeypot, db'.honeypot)
                     /\ db'.honeypot[Len(db'.honeypot)].email = p.email
                     /\ db'.honeypot[Len(db'.honeypot)].trap_value = Trap_t
                     /\ db'.waitlist = db.waitlist
                     /\ last'.status = StatusCreated
                     /\ last'.body.message = "email accepted for waitlist" ]_vars

C5_Witness ==
    /\ Answered
    /\ TrapSubmission(lastReq)
    /\ lastReq.email = <<"a", "x">>
    /\ last.status = StatusCreated
    /\ Len(db.honeypot) = 1
    /\ db.honeypot[1].email = <<"a", "x">>
    /\ Len(db.waitlist) = 1

\* C6, as claimed: whatever the status, a request to the endpoint that declares
\* application/json is answered with a JSON body and any other with an HTML body.
C6_ShapeAnyStatus ==
    (Answered /\ lastReq.path = Endpoint)
        => /\ last.status \in {StatusCreated, StatusBadRequest, StatusMethodNotAllowed,
                              StatusConflict, StatusInternalServerError}
           /\ last.body.kind = IF DeclaresJSON(lastReq) THEN "json" ELSE "html"

\* C6, amended: a POST to the endpoint is answered 201, 400, 409 or 500 with a JSON
\* body (Content-Type application/json) when it declares application/json and
\* with an HTML body (text/html) otherwise; a request of another method is
\* answered 405 with a plain-text body whatever it declares.
C6_ShapeOfPost ==
    (Answered /\ lastReq.path = Endpoint)
        => IF lastReq.method = "POST"
           THEN /\ last.status \in {StatusCreated, StatusBadRequest, StatusConflict,
                                   StatusInternalServerError}
                /\ last.body.kind = IF DeclaresJSON(lastReq) THEN "json" ELSE "html"
                /\ last.ctype = IF DeclaresJSON(lastReq) THEN "application/json"
                                ELSE "text/html; charset=utf-8"
           ELSE /\ last.status = StatusMethodNotAllowed
                /\ last.body.kind = "text"

C6_Witness ==
    /\ Answered
    /\ Submission(lastReq)
    /\ lastReq.ctype = CtJSONParam
    /\ last.status = StatusConflict
    /\ last.body.kind = "json"

\* C7: a request to the endpoint whose method is not POST is answered 405 with
\* Allow: POST whether or not its body decodes, makes no insert and leaves the
\* database as it was.
C7_MethodNotAllowed ==
    [][ (TakesRequest /\ lastReq'.path = Endpoint /\ lastReq'.method # "POST")
            => /\ last'.status = StatusMethodNotAllowed
               /\ last'.allow = "POST"
               /\ handlers' = EmptyBag
               /\ db' = db ]_vars

C7_Witness ==
    /\ Answered
    /\ lastReq.path = Endpoint
    /\ lastReq.method = "GET"
    /\ ~lastReq.bodyOK
    /\ lastReq.nickname \notin BlankTraps
    /\ last.status = StatusMethodNotAllowed
    /\ last.allow = "POST"
    /\ Len(db.waitlist) = 1

\* C8: while the server runs, GET / is answered with the file index.html, a
\* request to a path other than / and the endpoint is answered 404, and a
\* request to / of another method is answered 405.
C8_IndexServed ==
    (Answered /\ lastReq.path # Endpoint)
        => IF lastReq.path # "/"
           THEN last.status = StatusNotFound
           ELSE IF lastReq.method = "GET"
           THEN last.status = StatusOK /\ last.body = [kind |-> "file", message |-> "index.html"]
           ELSE last.status = StatusMethodNotAllowed

\* C9: every step leaves each row of both tables in place with its id, email and
\* created_at; a table changes only by the append of one row, made by the
\* handler's insert.
C9_RowsOnlyAppended ==
    [][ /\ IsPrefix(db.waitlist, db'.waitlist)
        /\ IsPrefix(db.honeypot, db'.honeypot)
        /\ db'.waitlist # db.waitlist
            => /\ Len(db'.waitlist) = Len(db.waitlist) + 1
               /\ \E p \in BagToSet(handlers), t \in Clock :
                     ExecInsertWaitlist(p, t, FALSE)
        /\ db'.honeypot # db.honeypot
            => /\ Len(db'.honeypot) = Len(db.honeypot) + 1
               /\ \E p \in BagToSet(handlers), t \in Clock :
                     ExecInsertHoneypot(p, t, FALSE) ]_vars

C9_Witness ==
    /\ lister = "done"
    /\ Len(out) = 3
    /\ Len(db.waitlist) = 2
    /\ Len(db.honeypot) = 1
    /\ last.status = StatusConflict

\* C10: a step of the schema initializer (at start-up or in a list run, alone or
\* interleaved with another run and with inserts) leaves every row as it was and
\* only adds a table that is absent; once both tables exist it changes nothing;
\* and a run that has finished leaves both tables in place.
InitializerStep ==
    \/ SrvPing
    \/ SrvExec1
    \/ SrvExec2
    \/ ListOpen
    \/ ListExec1
    \/ ListExec2

InitializerDone == srv = "serving" \/ lister \in {"query", "done"}

C10_InitializerIdempotent ==
    [][ /\ InitializerStep
            => /\ db'.waitlist = db.waitlist
               /\ db'.honeypot = db.honeypot
               /\ db.tables \subseteq db'.tables
               /\ db'.tables \subseteq TableNames
               /\ (db.file /\ db.tables = TableNames) => db' = db
        /\ InitializerDone' => db'.tables = TableNames ]_vars

C10_Witness ==
    /\ lister = "exec2"
    /\ Len(db.waitlist) = 2
    /\ Len(db.honeypot) = 1

\* the table a list run selects
Selected(d, honeypotOnly) == IF honeypotOnly THEN d.honeypot ELSE d.waitlist

\* the cells of a written line that hold a row's id and created_at
IdOf(ln) == ln[1]
CreatedOf(ln) == ln[Len(ln)]

\* C11: a list run of a table that holds rows writes, after the header, one line
\* for every stored row and no other line, each row on exactly one line, the
\* lines in ascending created_at and, where created_at is equal, in ascending
\* id, which is the order the rows were inserted in.
C11_ListedInOrder ==
    [][ \A honeypotOnly \in BOOLEAN :
          ListQuery(honeypotOnly)
              => LET rows == Selected(db, honeypotOnly)
                     n    == Len(rows)
                 IN  n >= 1
                       => /\ Len(out') = n + 1
                          /\ \A i \in 1..n :
                                Cardinality({k \in 2..(n + 1) :
                                    /\ IdOf(out'[k]) = rows[i].id
                                    /\ out'[k][2] = rows[i].email
                                    /\ CreatedOf(out'[k]) = rows[i].created_at}) = 1
                          /\ \A k \in 2..n :
                                \/ CreatedOf(out'[k]) < CreatedOf(out'[k + 1])
                                \/ /\ CreatedOf(out'[k]) = CreatedOf(out'[k + 1])
                                   /\ IdOf(out'[k]) < IdOf(out'[k + 1])
                          /\ \A i, j \in 1..n :
                                (i < j /\ rows[i].created_at = rows[j].created_at)
                                    => \E k, m \in 2..(n + 1) :
                                          /\ k < m
                                          /\ IdOf(out'[k]) = rows[i].id
                                          /\ IdOf(out'[m]) = rows[j].id ]_vars

C11_Witness ==
    /\ lister = "done"
    /\ Len(out) = 3
    /\ Len(out[1]) = 3
    /\ Len(db.waitlist) = 2
    /\ db.waitlist[1].created_at = db.waitlist[2].created_at
    /\ IdOf(out[2]) = db.waitlist[1].id
    /\ IdOf(out[3]) = db.waitlist[2].id

\* the number of columns of each table's listing
Columns(honeypotOnly) == IF honeypotOnly THEN 4 ELSE 3

\* a line whose first cell is text and whose other cells are empty
IsPlaceholderLine(ln, text) ==
    /\ Len(ln) >= 1
    /\ ln[1] = text
    /\ \A c \in 2..Len(ln) : ln[c] = ""

\* after the header, out' holds one line for each of the rows and nothing else
OnlyRowLines(lines, rows) ==
    /\ Len(lines) = Len(rows) + 1
    /\ \A k \in 2..Len(lines) : \E i \in 1..Len(rows) : IdOf(lines[k]) = rows[i].id

\* C12, as claimed: a list run of a table with no rows writes the header and then
\* exactly one line "(no entries)" with as many columns as the header (3 for
\* waitlist, 4 for the honeypot table); a run of a table with rows writes no
\* such line.
C12_PlaceholderNoEntries ==
    [][ \A honeypotOnly \in BOOLEAN :
          ListQuery(honeypotOnly)
              => LET rows == Selected(db, honeypotOnly)
                 IN  /\ Len(out') >= 1
                     /\ Len(out'[1]) = Columns(honeypotOnly)
                     /\ IF Len(rows) = 0
                        THEN /\ Len(out') = 2
                             /\ IsPlaceholderLine(out'[2], "(no entries)")
                             /\ Len(out'[2]) = Len(out'[1])
                        ELSE OnlyRowLines(out', rows) ]_vars

\* C12, amended: a list run of a table with no rows writes the header and then
\* exactly one placeholder line with as many columns as the header, whose text
\* is "(no entries)" for waitlist (3 columns) and "(no honeypot entries)" for the
\* honeypot table (4 columns); a run of a table with rows writes no such line.
C12_PlaceholderPerTable ==
    [][ \A honeypotOnly \in BOOLEAN :
          ListQuery(honeypotOnly)
              => LET rows == Selected(db, honeypotOnly)
                     text == IF honeypotOnly THEN "(no honeypot entries)"
                             ELSE "(no entries)"
                 IN  /\ Len(out') >= 1
                     /\ Len(out'[1]) = Columns(honeypotOnly)
                     /\ IF Len(rows) = 0
                        THEN /\ Len(out') = 2
                             /\ IsPlaceholderLine(out'[2], text)
                             /\ Len(out'[2]) = Len(out'[1])
                        ELSE OnlyRowLines(out', rows) ]_vars

C12_Witness ==
    /\ lister = "done"
    /\ Len(out) = 2
    /\ Len(out[1]) = 4
    /\ db.honeypot = <<>>
    /\ IsPlaceholderLine(out[2], "(no honeypot entries)")
    /\ Len(out[2]) = 4
    /\ Len(db.waitlist) = 2

\* a request to the endpoint that passes the method check, parsing and either
\* carries a trap that is not blank or passes the validation of its email
ReachesStorage(req) ==
    /\ Submission(req)
    /\ req.bodyOK
    /\ (req.nickname \notin BlankTraps \/ req.email \in ValidInputs)

\* C13: a request to the endpoint that passes parsing and validation, or parses
\* and carries a trap that is not blank, goes on to one storage call and any
\* other is answered 405 or 400 with no storage call and the store as it was;
\* the storage call of a request runs once, its handler answers 201, 409 or 500
\* right after it whatever it returned, and is gone; a call that fails for a
\* reason other than the unique constraint is answered 500 and leaves the store
\* as it was.
C13_OneAttempt ==
    [][ /\ (TakesRequest /\ lastReq'.path = Endpoint)
            => /\ db' = db
               /\ IF ReachesStorage(lastReq')
                  THEN /\ BagCardinality(handlers') = 1
                       /\ last' = last
                  ELSE /\ handlers' = EmptyBag
                       /\ last'.status \in {StatusMethodNotAllowed, StatusBadRequest}
        /\ \A p \in BagToSet(handlers), t \in Clock, fault \in BOOLEAN :
              ExecInsertWaitlist(p, t, fault)
                  => /\ ReachesStorage(lastReq)
                     /\ BagCardinality(handlers) = 1
                     /\ handlers' = EmptyBag
                     /\ last'.status \in {StatusCreated, StatusConflict,
                                          StatusInternalServerError}
                     /\ fault => last'.status = StatusInternalServerError
                     /\ last'.status # StatusCreated => db' = db
        /\ \A p \in BagToSet(handlers), t \in Clock, fault \in BOOLEAN :
              ExecInsertHoneypot(p, t, fault)
                  => /\ ReachesStorage(lastReq)
                     /\ BagCardinality(handlers) = 1
                     /\ handlers' = EmptyBag
                     /\ last'.status \in {StatusCreated, StatusInternalServerError}
                     /\ fault => last'.status = StatusInternalServerError
                     /\ last'.status # StatusCreated => db' = db
        /\ db' # db
            => \/ srv # "serving"
               \/ /\ BagCardinality(handlers) = 1
                  /\ handlers' = EmptyBag
                  /\ Len(db'.waitlist) + Len(db'.honeypot)
                        = Len(db.waitlist) + Len(db.honeypot) + 1 ]_vars

C13_Witness ==
    /\ Answered
    /\ GenuineSubmission(lastReq)
    /\ last.status = StatusInternalServerError
    /\ Stored(lastReq.email) \notin Emails(db.waitlist)
    /\ Len(db.waitlist) = 1

====
